---------------------------- MODULE Spec2Model ----------------------------
(***************************************************************************)
(* A model of noisevis.py: the local-maximum picker, the octave sampler,   *)
(* the threshold and the linear falloff, and the field build of main().    *)
(*                                                                         *)
(* Numbers.  Python floats are modelled exactly on the inputs used here:   *)
(*   - a noise argument a is held as the integer 2*a (all arguments are    *)
(*     multiples of 1/2 for the scales in Scales);                         *)
(*   - a sampled or shaped value v is held as the integer v*One            *)
(*     (fixed point, One = 2*Res steps per unit);                          *)
(*   - a falloff gain is held as an exact fraction [num, den].             *)
(***************************************************************************)
EXTENDS Integers, Sequences, FiniteSets, TLC

VARIABLES
    noise,      \* the external primitive noise.pnoise2, as a value table
    pc,         \* where the program is: "idle", "returned", "main", "cast", "done"
    call,       \* the library call in progress / just returned, with its outcome
    xy,         \* main(): the loop variables <<x, y>> of lines 13-14
    result,     \* main(): the array `result`, result[y][x]
    written     \* main(): the (x, y) whose assignment at line 24 has run

vars == <<noise, pc, call, xy, result, written>>

----------------------------------------------------------------------------
(* Bounds of the model *)

GridN == 2          \* side of the square grid (shape is (256, 256) in the source)
MaxRadius == 3      \* largest radius a picker call is made with
Res == 2            \* raw noise values are the multiples of 1/Res in [-1, 1]
MaxOff == 3         \* falloff positions range over centre-MaxOff .. centre+MaxOff
MaxOct == 2         \* largest octave count an octave call is made with

(* Program constants *)

freq == 50          \* line 42
main_sx == 1        \* line 26
main_sy == 1        \* line 26
main_r == 10        \* line 27

One == 2 * Res      \* fixed point: the integer standing for 1.0

shape == <<GridN, GridN>>

----------------------------------------------------------------------------
(* Python helpers *)

\* range(lo, hi): the values lo, lo+1, .., hi-1 in this order (none if hi <= lo)
range(lo, hi) == [start |-> lo, stop |-> hi]

\* a / b for integers with b # 0 and b | a (exact float quotient)
Quot(a, b) == IF b > 0 THEN a \div b ELSE -(a \div (-b))

Abs(a) == IF a < 0 THEN -a ELSE a

----------------------------------------------------------------------------
(* The external primitive.  noise.pnoise2 is not part of the repository; it *)
(* is a deterministic function of its arguments.  The table `noise` is one  *)
(* function of the family "base everywhere, val at one point `at`".         *)

NoiseLevels == {-One, 0, One}

\* where the bump may sit: around the grid, and in the two columns main()'s
\* calls reach it in (x - main_r and x - main_r + 1 for x = 0)
BumpYs == -1 .. GridN
BumpXs == BumpYs \cup {0 - main_r, 1 - main_r}

\* twice the argument  v/s*freq + 0.5  (lines 44 and 49), for s # 0
NoiseArg(v, s) == Quot(2 * v, s) * freq + 1

BumpKeys == { <<NoiseArg(i, 1), NoiseArg(j, 1)>> : i \in BumpXs, j \in BumpYs }

\* noise.pnoise2(ax, ay) with the default octaves=1
pnoise2(ax, ay) == IF <<ax, ay>> = noise.at THEN noise.val ELSE noise.base

----------------------------------------------------------------------------
(* bue_noise_picker_2d, lines 37-53 *)

\* line 46: the range the outer loop variable x runs over
ScanXsInclusive(x, r) == range(x - r, x + r + 1)
ScanXs(x, r) == range(x - r, x + r)

\* line 47: the range the inner loop variable y runs over, from the CURRENT y
ScanYs(y, r) == range(y - r, y + r)

\* line 51
Exceeds(sample, here) == sample > here

\* lines 47-52: the inner loop from its value ny on, up to stop.  y is the
\* function's variable y, which the loop assigns (the parameter is shadowed):
\* it is left at the last value the loop gave it.
RECURSIVE InnerLoop(_, _, _, _, _, _, _, _)
InnerLoop(x, ny, stop, y, here, sx, sy, scan) ==
    IF ny >= stop
    THEN [returned |-> FALSE, y |-> y, scan |-> scan]
    ELSE LET sample == pnoise2(NoiseArg(x, sx), NoiseArg(ny, sy))
             seen   == Append(scan, <<x, ny>>)
         IN  IF Exceeds(sample, here)
             THEN [returned |-> TRUE, y |-> ny, scan |-> seen]
             ELSE InnerLoop(x, ny + 1, stop, ny, here, sx, sy, seen)

\* lines 46-53: the outer loop from its value nx on, up to stop.  Its range
\* was fixed from the parameter x before the first iteration; the inner range
\* is taken from the current y at each iteration.
RECURSIVE OuterLoop(_, _, _, _, _, _, _, _)
OuterLoop(nx, stop, y, r, here, sx, sy, scan) ==
    IF nx >= stop
    THEN [outcome |-> "True", scan |-> scan]
    ELSE LET ys    == ScanYs(y, r)
             inner == InnerLoop(nx, ys.start, ys.stop, y, here, sx, sy, scan)
         IN  IF inner.returned
             THEN [outcome |-> "False", scan |-> inner.scan]
             ELSE OuterLoop(nx + 1, stop, inner.y, r, here, sx, sy, inner.scan)

\* line 44: the division v / s raises ZeroDivisionError
DivRaisesNonPositive(v, s) == s <= 0
DivRaises(v, s) == s = 0

\* The whole function.  outcome is "True", "False" or "ZeroDivisionError"
\* (x/sx or y/sy at line 44, raised while the arguments are evaluated, before
\* pnoise2 is entered); scan is the sequence of cells sampled by the loops;
\* ncalls counts the invocations of noise.pnoise2.
bue_noise_picker_2d(x, y, sx, sy, r) ==
    IF DivRaises(x, sx) \/ DivRaises(y, sy)
    THEN [outcome |-> "ZeroDivisionError", scan |-> <<>>, ncalls |-> 0]
    ELSE LET here == pnoise2(NoiseArg(x, sx), NoiseArg(y, sy))
             xs   == ScanXs(x, r)
             res  == OuterLoop(xs.start, xs.stop, y, r, here, sx, sy, <<>>)
         IN  [outcome |-> res.outcome, scan |-> res.scan, ncalls |-> 1 + Len(res.scan)]

----------------------------------------------------------------------------
(* octave_perlin_2d, lines 56-72 *)

\* The multiples of 1/Res in [-1, 1], in fixed point: what the primitive may
\* return.
RawVals == { 2 * n : n \in (0 - Res) .. Res }

\* lines 63-72 applied to what noise.pnoise2 returned: raw / 2.0 + 0.5
octave_perlin_2d_noshift(raw) == raw \div 2
octave_perlin_2d(raw) == raw \div 2 + One \div 2

----------------------------------------------------------------------------
(* threshme, lines 75-76.  The Python int 1 is the value 1.0, i.e. One. *)

threshme_strict(val, thresh) == IF val > thresh THEN One ELSE 0
threshme(val, thresh) == IF val >= thresh THEN One ELSE 0

----------------------------------------------------------------------------
(* linear_falloff, lines 79-93.  The result is the exact fraction num/den, *)
(* den > 0.                                                                 *)

linear_falloff_swapped(pt, centre, maxd) ==
    LET distance == pt - centre
    IN  IF distance >= 0
        THEN IF distance <= maxd
             THEN [num |-> maxd - Abs(distance), den |-> maxd]
             ELSE [num |-> 0, den |-> 1]
        ELSE [num |-> maxd + Abs(distance), den |-> maxd]

linear_falloff_damp_both(pt, centre, maxd) ==
    LET distance == centre - pt
    IN  IF Abs(distance) <= maxd
        THEN [num |-> maxd - Abs(distance), den |-> maxd]
        ELSE [num |-> 0, den |-> 1]

linear_falloff(pt, centre, maxd) ==
    LET distance == centre - pt
    IN  IF distance >= 0
        THEN IF distance <= maxd
             THEN [num |-> maxd - Abs(distance), den |-> maxd]
             ELSE [num |-> 0, den |-> 1]
        ELSE [num |-> maxd + Abs(distance), den |-> maxd]

\* line 21: sample * linear_falloff(pt, centre, maxd), sample in fixed point
felloff(sample, pt, centre, maxd) ==
    LET g == linear_falloff(pt, centre, maxd)
    IN  [num |-> sample * g.num, den |-> One * g.den]

----------------------------------------------------------------------------
(* main, lines 11-34 *)

\* line 12: np.zeros(shape)
zeros == [i \in 0 .. (shape[1] - 1) |-> [j \in 0 .. (shape[2] - 1) |-> 0]]

\* line 24: result[y][x] = v
StoreTransposed(res, x, y, v) == [res EXCEPT ![x][y] = v]
Store(res, x, y, v) == [res EXCEPT ![y][x] = v]

\* line 29: np.floor(v * 255).astype(np.uint8), for a whole number v
ToByte(v) == (v * 255) % 256

----------------------------------------------------------------------------
(* The inputs calls are made with *)

Scales   == {-1, 0, 1, 2}
Radii    == -1 .. MaxRadius
Cells    == (0 .. (shape[1] - 1)) \X (0 .. (shape[2] - 1))
Octaves  == -1 .. MaxOct
FixVals  == (0 - One) .. (2 * One)
Centres  == {0, 500}
MaxDs    == {1, 2, 250}
Offsets(maxd) == ((0 - MaxOff) .. MaxOff) \cup {0 - maxd - 1, 0 - maxd, maxd, maxd + 1}
Samples  == {0, One \div 2, One}

Flat == [base |-> 0, at |-> <<NoiseArg(0, 1), NoiseArg(0, 1)>>, val |-> 0]

NoiseTables ==
    {Flat} \cup { [base |-> 0, at |-> k, val |-> v] : k \in BumpKeys, v \in NoiseLevels \ {0} }

Idle == [fn |-> "idle"]

Init ==
    /\ noise \in NoiseTables
    /\ pc = "idle"
    /\ call = Idle
    /\ xy = <<0, 0>>
    /\ result = zeros
    /\ written = {}

\* a call bue_noise_picker_2d(x, y, sx, sy, r)
CallPicker ==
    /\ pc = "idle"
    /\ \E c \in Cells, sx \in Scales, sy \in Scales, r \in Radii :
          LET out == bue_noise_picker_2d(c[1], c[2], sx, sy, r)
          IN  call' = [fn |-> "bue_noise_picker_2d",
                       x |-> c[1], y |-> c[2], sx |-> sx, sy |-> sy, r |-> r,
                       outcome |-> out.outcome, scan |-> out.scan,
                       ncalls |-> out.ncalls]
    /\ pc' = "returned"
    /\ UNCHANGED <<noise, xy, result, written>>

\* a call octave_perlin_2d(x, y, octaves, 0.5, 2).  The function enters
\* noise.pnoise2 unconditionally (line 63).  What the library does with
\* octaves <= 0 is outside the repository: it may raise or return a value.
CallOctave ==
    /\ pc = "idle"
    /\ \E c \in Cells, octaves \in Octaves, raw \in RawVals, raises \in BOOLEAN :
          /\ raises => octaves <= 0
          /\ call' = [fn |-> "octave_perlin_2d",
                      x |-> c[1], y |-> c[2], octaves |-> octaves,
                      repeatx |-> shape[1], repeaty |-> shape[2],
                      ncalls |-> 1,
                      outcome |-> IF raises THEN "LibraryError" ELSE "value",
                      raw |-> IF raises THEN 0 ELSE raw,
                      ret |-> IF raises THEN 0 ELSE octave_perlin_2d(raw)]
    /\ pc' = "returned"
    /\ UNCHANGED <<noise, xy, result, written>>

\* a call threshme(val, thresh)
CallThresh ==
    /\ pc = "idle"
    /\ \E val \in FixVals, thresh \in FixVals :
          call' = [fn |-> "threshme", val |-> val, thresh |-> thresh,
                   ret |-> threshme(val, thresh)]
    /\ pc' = "returned"
    /\ UNCHANGED <<noise, xy, result, written>>

\* sample * linear_falloff(pt, centre, maxd), maxd > 0
CallFalloff ==
    /\ pc = "idle"
    /\ \E centre \in Centres, maxd \in MaxDs, sample \in Samples :
          \E off \in Offsets(maxd) :
             call' = [fn |-> "linear_falloff", sample |-> sample,
                      pt |-> centre + off, centre |-> centre, maxd |-> maxd,
                      gain |-> linear_falloff(centre + off, centre, maxd),
                      ret |-> felloff(sample, centre + off, centre, maxd)]
    /\ pc' = "returned"
    /\ UNCHANGED <<noise, xy, result, written>>

\* the caller takes the outcome; the program is ready for the next call
Return ==
    /\ pc = "returned"
    /\ pc' = "idle"
    /\ call' = Idle
    /\ UNCHANGED <<noise, xy, result, written>>

\* main(), lines 12-13: the array is made and the loops are entered
MainStart ==
    /\ pc = "idle"
    /\ pc' = IF shape[1] > 0 /\ shape[2] > 0 THEN "main" ELSE "cast"
    /\ result' = zeros
    /\ xy' = <<0, 0>>
    /\ written' = {}
    /\ UNCHANGED <<noise, call>>

\* main(), lines 13-28: one iteration of the inner loop, at (x, y) = xy
MainCell ==
    /\ pc = "main"
    /\ LET x == xy[1]
           y == xy[2]
           v == IF bue_noise_picker_2d(x, y, main_sx, main_sy, main_r).outcome = "True"
                THEN 1 ELSE 0
       IN  /\ result' = Store(result, x, y, v)
           /\ written' = written \cup {<<x, y>>}
           /\ IF y + 1 < shape[2]
              THEN xy' = <<x, y + 1>> /\ pc' = "main"
              ELSE IF x + 1 < shape[1]
                   THEN xy' = <<x + 1, 0>> /\ pc' = "main"
                   ELSE xy' = xy /\ pc' = "cast"
    /\ UNCHANGED <<noise, call>>

\* main(), line 29: the whole array is scaled and cast to bytes
MainCast ==
    /\ pc = "cast"
    /\ result' = [i \in DOMAIN result |-> [j \in DOMAIN result[i] |-> ToByte(result[i][j])]]
    /\ pc' = "done"
    /\ UNCHANGED <<noise, call, xy, written>>

Next ==
    \/ CallPicker
    \/ CallOctave
    \/ CallThresh
    \/ CallFalloff
    \/ Return
    \/ MainStart
    \/ MainCell
    \/ MainCast

Spec == Init /\ [][Next]_vars

----------------------------------------------------------------------------
(* Vocabulary of the properties *)

IsPick    == call.fn = "bue_noise_picker_2d"
Verdict   == IsPick /\ call.outcome \in {"True", "False"}
ValidPick == Verdict /\ call.sx > 0 /\ call.sy > 0 /\ call.r >= 0

\* the noise expression of lines 43-45 / 48-50 at cell (cx, cy)
NoiseAt(cx, cy, sx, sy) == pnoise2(NoiseArg(cx, sx), NoiseArg(cy, sy))

\* the cells a picker call sampled in its loops
Scanned == { call.scan[i] : i \in 1 .. Len(call.scan) }

\* the half-open square [x-r, x+r) x [y-r, y+r) around the candidate
Square(x, y, r) == { <<nx, ny>> : nx \in (x - r) .. (x + r - 1), ny \in (y - r) .. (y + r - 1) }

\* fractions, den > 0:  f = n (an integer)
FracIs(f, n) == f.num = n * f.den

----------------------------------------------------------------------------
(* C1.  The picker returns false iff some cell of the half-open square      *)
(* [x-r, x+r) x [y-r, y+r) around the candidate has a noise value strictly  *)
(* greater than the value at the candidate; otherwise it returns true.      *)
C1_PickerScansSquare ==
    ValidPick =>
        ( call.outcome = "False"
          <=> \E c \in Square(call.x, call.y, call.r) :
                 NoiseAt(c[1], c[2], call.sx, call.sy)
                    > NoiseAt(call.x, call.y, call.sx, call.sy) )

(* C2.  For every radius r >= 1 the candidate cell itself is one of the     *)
(* cells the scan visits, when the scan runs to completion.                 *)
C2_SelfScanned ==
    (ValidPick /\ call.r >= 1 /\ call.outcome = "True")
        => <<call.x, call.y>> \in Scanned

(* C3.  With radius 0 no cell is scanned and the picker returns true; with  *)
(* radius 1 a completed scan visits exactly the 4 cells {x-1,x} x {y-1,y}.  *)
(* Stated for every call that reaches the loops (non-zero scales).          *)
C3_WindowEdgeCases ==
    Verdict =>
        /\ call.r = 0 => (call.outcome = "True" /\ call.scan = <<>>)
        /\ (call.r = 1 /\ call.outcome = "True") =>
              /\ Scanned = {call.x - 1, call.x} \X {call.y - 1, call.y}
              /\ Len(call.scan) = 4
              /\ <<call.x, call.y>> \in Scanned

C3_Witness ==
    /\ Verdict /\ call.r = 1 /\ call.outcome = "True"
    /\ call.sx = 2 /\ noise.val = One
    /\ Len(call.scan) = 4

(* C4.  If the picker returns true at radius r2 it returns true at every    *)
(* radius r1 <= r2, for the same cell and noise function.                   *)
C4_RadiusMonotone ==
    (ValidPick /\ call.outcome = "True") =>
        \A r1 \in 0 .. call.r :
            bue_noise_picker_2d(call.x, call.y, call.sx, call.sy, r1).outcome = "True"

(* C5.  As stated, with max_distance = 250 and value 1.0: shaping at        *)
(* position = center yields 1.0, at center + 250 yields 0.0, at             *)
(* center - 250 yields 2.0.                                                 *)
C5_BoundaryAsStated ==
    (call.fn = "linear_falloff" /\ call.maxd = 250 /\ call.sample = One) =>
        /\ call.pt = call.centre => FracIs(call.ret, 1)
        /\ call.pt = call.centre + 250 => FracIs(call.ret, 0)
        /\ call.pt = call.centre - 250 => FracIs(call.ret, 2)

(* C5, amended.  With max_distance = 250 and value 1.0: shaping at          *)
(* position = center yields 1.0, at center + 250 yields 2.0, at             *)
(* center - 250 yields 0.0.                                                 *)
C5_BoundaryValues ==
    (call.fn = "linear_falloff" /\ call.maxd = 250 /\ call.sample = One) =>
        /\ call.pt = call.centre => FracIs(call.ret, 1)
        /\ call.pt = call.centre + 250 => FracIs(call.ret, 2)
        /\ call.pt = call.centre - 250 => FracIs(call.ret, 0)

C5_Witness ==
    /\ call.fn = "linear_falloff" /\ call.maxd = 250 /\ call.sample = One
    /\ call.pt = call.centre + 250
    /\ FracIs(call.ret, 2)

(* C6.  With distance = center - position and max_distance > 0 the shaper   *)
(* returns value * gain, where gain = 1 - distance/max_distance if          *)
(* 0 <= distance <= max_distance, 0 if distance > max_distance, and         *)
(* 1 + |distance|/max_distance if distance < 0; the result is never         *)
(* negative for value >= 0, and past the center the gain exceeds 1 and      *)
(* grows with the position without bound.                                   *)
C6_FalloffGain ==
    call.fn = "linear_falloff" =>
        LET d == call.centre - call.pt
            g == call.gain
            m == call.maxd
        IN  /\ g.den > 0 /\ call.ret.den > 0
            /\ (0 <= d /\ d <= m) => g.num * m = (m - d) * g.den
            /\ d > m => g.num = 0
            /\ d < 0 => g.num * m = (m + (0 - d)) * g.den
            /\ d < 0 => g.num > g.den
            /\ (d < 0 /\ 0 - d >= m) => g.num >= 2 * g.den
            /\ call.ret.num * (One * g.den) = (call.sample * g.num) * call.ret.den
            /\ call.sample >= 0 => call.ret.num >= 0

C6_Witness ==
    /\ call.fn = "linear_falloff" /\ call.sample = One
    /\ call.maxd = 2 /\ call.pt = call.centre + 3
    /\ 2 * call.ret.num = 5 * call.ret.den

(* C7.  As stated: threshold(v, c) returns 1 iff v >= c and 0 otherwise,    *)
(* and threshold(threshold(v, c), c) = threshold(v, c) for all v and all    *)
(* cutoffs c.                                                               *)
C7_IdempotentAllCutoffs ==
    call.fn = "threshme" =>
        /\ call.ret = (IF call.val >= call.thresh THEN One ELSE 0)
        /\ threshme(call.ret, call.thresh) = call.ret

(* C7, amended.  threshold(v, c) returns 1 iff v >= c and 0 otherwise, and  *)
(* threshold(threshold(v, c), c) = threshold(v, c) for all v and all        *)
(* cutoffs c with 0 < c <= 1.                                               *)
C7_IdempotentUnitCutoffs ==
    call.fn = "threshme" =>
        /\ call.ret \in {0, One}
        /\ call.ret = One <=> call.val >= call.thresh
        /\ (0 < call.thresh /\ call.thresh <= One)
              => threshme(call.ret, call.thresh) = call.ret

C7_Witness ==
    /\ call.fn = "threshme" /\ call.thresh = One /\ call.val = One
    /\ call.ret = One /\ threshme(call.ret, call.thresh) = One

(* C8.  For a valid octave configuration and a primitive result raw in      *)
(* [-1, 1] the sampler returns raw/2 + 0.5, which lies in [0, 1]; raw = 0   *)
(* gives exactly 0.5, which thresholds to 1 at cutoff 0.5.                  *)
C8_OctaveRange ==
    (call.fn = "octave_perlin_2d" /\ call.octaves >= 1) =>
        /\ call.outcome = "value"
        /\ 2 * call.ret = call.raw + One
        /\ 0 <= call.ret /\ call.ret <= One
        /\ call.raw = 0 =>
              (2 * call.ret = One /\ threshme(call.ret, One \div 2) = One)

C8_Witness ==
    /\ call.fn = "octave_perlin_2d" /\ call.octaves = 1
    /\ call.raw = 0 /\ 2 * call.ret = One

(* C9.  As stated: a picker call with a non-positive scale or radius, or an *)
(* octave call with octaves <= 0, ends in an error without the noise        *)
(* primitive having been invoked and without a sample or verdict.           *)
C9_RejectedBeforeSampling ==
    /\ (IsPick /\ (call.sx <= 0 \/ call.sy <= 0 \/ call.r <= 0))
          => (call.outcome \notin {"True", "False"} /\ call.ncalls = 0)
    /\ (call.fn = "octave_perlin_2d" /\ call.octaves <= 0)
          => (call.outcome # "value" /\ call.ncalls = 0)

(* C9, amended.  Only a zero scale is rejected before sampling: a picker    *)
(* call with scale_x = 0 or scale_y = 0 ends in ZeroDivisionError with the  *)
(* primitive never invoked and no verdict.  Every other picker call,        *)
(* negative scales and non-positive radii included, invokes the primitive   *)
(* and returns a verdict (true, after the single sample `here`, when the    *)
(* radius is <= 0); every octave call, octaves <= 0 included, invokes the   *)
(* primitive.                                                               *)
C9_OnlyZeroScaleRejected ==
    /\ IsPick =>
          IF call.sx = 0 \/ call.sy = 0
          THEN call.outcome = "ZeroDivisionError" /\ call.ncalls = 0 /\ call.scan = <<>>
          ELSE /\ call.outcome \in {"True", "False"}
               /\ call.ncalls >= 1
               /\ call.r <= 0 => (call.outcome = "True" /\ call.ncalls = 1)
    /\ call.fn = "octave_perlin_2d" => call.ncalls = 1

C9_Witness ==
    /\ IsPick /\ call.sx = 1 /\ call.sy = 0 /\ call.r = 1
    /\ call.outcome = "ZeroDivisionError" /\ call.ncalls = 0

(* C10.  Once the build completes every cell has been written, every byte   *)
(* is 0 or 255, and the byte at (x, y) is 255 iff the picker returns true   *)
(* for (x, y).  While the build runs, every cell already written holds its  *)
(* own picker's verdict and every other cell is still zero, whatever else   *)
(* has been written.                                                        *)
C10_FieldBuild ==
    /\ pc \in {"main", "cast"} =>
          \A c \in Cells :
             result[c[2]][c[1]] =
                IF c \in written
                   /\ bue_noise_picker_2d(c[1], c[2], main_sx, main_sy, main_r).outcome = "True"
                THEN 1 ELSE 0
    /\ pc \in {"cast", "done"} => written = Cells
    /\ pc = "done" =>
          \A c \in Cells :
             /\ result[c[2]][c[1]] \in {0, 255}
             /\ result[c[2]][c[1]] = 255
                   <=> bue_noise_picker_2d(c[1], c[2], main_sx, main_sy, main_r).outcome = "True"

C10_Witness ==
    /\ pc = "done"
    /\ \E c \in Cells, d \in Cells :
          /\ result[c[2]][c[1]] = 255 /\ result[d[2]][d[1]] = 0
          /\ result[c[1]][c[2]] = 0

=============================================================================
